---- MODULE Spec2Model ----
(***************************************************************************)
(* A model of vlnce_baselines/common/ddppo_alg.py: the streaming dataset   *)
(* FramesDataset (shard assignment, load ordering queue, preload buffer)   *)
(* and the policy update loops WDDPPO.update / CWDDPPO.update.             *)
(***************************************************************************)
EXTENDS Integers, Sequences, FiniteSets

\* ------------------------------------------------------------------ bounds
MaxLength == 11         \* largest number of records in the feature store
MaxWorkers == 3         \* largest DataLoader worker count
MaxBatch == 2           \* largest batch_size of a FramesDataset
LiveLength == 3         \* largest store in the fair (liveness) specification
MaxEpoch == 2           \* largest ppo_epoch
MaxMiniBatch == 2       \* largest num_mini_batch
MaxT == 2               \* largest rollout horizon T in get_advantages
MaxN == 2               \* largest environment count N in get_advantages
MaxList == 4            \* longest list handed to _block_shuffle on its own
MaxRecords == 2         \* largest store whose pairs are followed one by one
FaultLength == 3        \* largest store that holds undecodable records

\* ------------------------------------------------------- program constants
PreloadFactor == 10     \* preload_size = batch_size * 10

VARIABLES
    length,         \* FramesDataset.length: entries of the store
    store,          \* the store: record index r (0-based) |-> shape <<n, c>> at store[r + 1]
    batch_size,     \* FramesDataset.batch_size
    preload_size,   \* FramesDataset.preload_size
    num_workers,    \* worker_info.num_workers; 0 stands for worker_info is None
    worker_id,      \* worker_info.id
    start,          \* FramesDataset.start
    end,            \* FramesDataset.end
    load_ordering,  \* FramesDataset.load_ordering (popped from the tail)
    preload,        \* FramesDataset._preload (appended and popped at the tail)
    dpc,            \* "constructed" before __iter__, "iterating" after it
    ret,            \* outcome of the last __next__ call
    pops,           \* history: record indices popped since __iter__ (last two passes)
    bad,            \* record indices whose key is absent or whose payload is malformed
    events          \* history: store handle and copy events of the last operation

dvars == <<length, store, batch_size, preload_size, num_workers, worker_id,
           start, end, load_ordering, preload, dpc, ret, pops, bad, events>>

VARIABLES
    returns,        \* rollouts.returns: T + 1 rows of N entries
    value_preds,    \* rollouts.value_preds: T + 1 rows of N entries
    use_normalized_advantage,
    advantages      \* the tensor get_advantages returned; <<>> before the call

avars == <<returns, value_preds, use_normalized_advantage, advantages>>

VARIABLES
    variant,        \* the class of the trainer: "WDDPPO" or "CWDDPPO"
    cfg,            \* the hyper-parameters held by the trainer
    diter,          \* CWDDPPO.diter: the kind of object __init__ stored
    batches,        \* the minibatches rollouts.recurrent_generator can yield
    gen_len,        \* how many minibatches the generator yields in one epoch
    outputs,        \* what actor_critic.evaluate_actions can return
    upc,            \* position inside update
    epoch,          \* _e
    yielded,        \* minibatches taken from the current data_generator
    sample,         \* the minibatch being processed
    obs_batch,      \* the keys of obs_batch
    out,            \* values, ratio and entropy of the current minibatch
    losses,         \* entropy_loss, action_loss, value_loss, offset_loss, loss
    sums,           \* the six *_epoch accumulators
    result,         \* the tuple update returned
    error,          \* the exception update raised, "none" if none
    calls,          \* history: collaborator calls made for the current minibatch
    drawn,          \* history: minibatches taken from the generators
    pulled,         \* history: negative batches pulled from diter
    opt_steps,      \* history: optimizer.step calls
    tally           \* history: processed minibatches, counted by (batch, output)

uvars == <<variant, cfg, diter, batches, gen_len, outputs, upc, epoch, yielded, sample,
           obs_batch, out, losses, sums, result, error, calls, drawn, pulled,
           opt_steps, tally>>

VARIABLES
    in_lst,         \* the lst handed to _block_shuffle
    in_block_size,  \* the block_size handed to _block_shuffle
    shuffled,       \* what the function under study returned; <<>> before the call
    spc             \* "list" / "queue": the input is ready; "shuffled" / "extended": done

svars == <<in_lst, in_block_size, shuffled, spc>>

vars == <<dvars, avars, uvars, svars>>

\* ------------------------------------------------------------- sequences
Min(a, b) == IF a < b THEN a ELSE b

Max(a, b) == IF a > b THEN a ELSE b

\* list(range(a, b)): empty when b <= a
Range(a, b) == [i \in 1..Max(b - a, 0) |-> a + i - 1]

\* list(reversed(s))
Reversed(s) == [i \in 1..Len(s) |-> s[Len(s) + 1 - i]]

\* int(np.ceil(a / b)) for a >= 0, b >= 1
Ceil(a, b) == (a + b - 1) \div b

RECURSIVE Orderings(_)
\* every sequence that holds each element of S exactly once
Orderings(S) ==
    IF S = {} THEN {<<>>}
    ELSE UNION {{<<x>> \o o : o \in Orderings(S \ {x})} : x \in S}

\* the orders random.shuffle can leave k positions in
Permutations(k) == Orderings(1..k)

RECURSIVE Flatten(_)
Flatten(blocks) ==
    IF Len(blocks) = 0 THEN <<>> ELSE Head(blocks) \o Flatten(Tail(blocks))

\* faulty variant of Blocks: the last, shorter block is left out
Blocks_floor(lst, block_size) ==
    [k \in 1..(Len(lst) \div block_size) |->
        SubSeq(lst, (k - 1) * block_size + 1, k * block_size)]

\* blocks = [lst[i : i + block_size] for i in range(0, len(lst), block_size)]
Blocks(lst, block_size) ==
    [k \in 1..Ceil(Len(lst), block_size) |->
        SubSeq(lst, (k - 1) * block_size + 1, Min(k * block_size, Len(lst)))]

\* _block_shuffle(lst, block_size): every outcome random.shuffle(blocks) can give
_block_shuffle(lst, block_size) ==
    LET blocks == Blocks(lst, block_size)
    IN  {Flatten([k \in 1..Len(blocks) |-> blocks[f[k]]]) : f \in Permutations(Len(blocks))}

\* faulty variant of NewOrdering: the shuffled list is not reversed
NewOrdering_unreversed(s, e, ps) == _block_shuffle(Range(s, e), ps)

\* list(reversed(_block_shuffle(list(range(start, end)), preload_size)))
NewOrdering(s, e, ps) == {Reversed(b) : b \in _block_shuffle(Range(s, e), ps)}

\* ------------------------------------------------------ shard assignment
\* faulty variant of per_worker: floor instead of ceil
per_worker_floor(L, W) == L \div W

per_worker(L, W) == Ceil(L, W)

ShardStart(L, W, w) == IF W = 0 THEN 0 ELSE per_worker(L, W) * w

ShardEnd(L, W, w) ==
    IF W = 0 THEN L ELSE Min(ShardStart(L, W, w) + per_worker(L, W), L)

\* the record indices of range(start, end)
ShardSet(L, W, w) == {i \in 0..(L - 1) : ShardStart(L, W, w) <= i /\ i < ShardEnd(L, W, w)}

Workers(W) == IF W = 0 THEN {0} ELSE 0..(W - 1)

\* ------------------------------------------------------------ the store
\* shapes (segments, poses_per_segment) of rgb_features / depth_features
Shapes == {<<1, 1>>, <<2, 5>>}

\* the pairs one record decodes to: zip over the n * c flattened poses
Decode(shape) == [i \in 1..(shape[1] * shape[2]) |-> "pair"]

\* faulty variant of Undecodable: every record decodes, an absent key or a
\* malformed payload is passed over without an error
Undecodable_never(idx, bd) == FALSE

\* txn.get gives None for an absent key and unpackb raises on None or on a
\* malformed payload
Undecodable(idx, bd) == idx \in bd

\* faulty variant of LoadLoop: one more record is decoded when exactly
\* preload_size pairs are accumulated
RECURSIVE LoadLoop_late(_, _, _, _, _, _)
LoadLoop_late(q, new_preload, popped, st, ps, bd) ==
    IF Len(new_preload) > ps \/ Len(q) = 0
    THEN [q |-> q, new |-> new_preload, popped |-> popped, failed |-> FALSE]
    ELSE LET idx == q[Len(q)]
         IN  IF Undecodable(idx, bd)
             THEN [q |-> SubSeq(q, 1, Len(q) - 1), new |-> new_preload,
                   popped |-> Append(popped, idx), failed |-> TRUE]
             ELSE LoadLoop_late(SubSeq(q, 1, Len(q) - 1),
                                new_preload \o Decode(st[idx + 1]),
                                Append(popped, idx), st, ps, bd)

\* the while loop of _load_next: pop and decode records until preload_size
\* pairs are accumulated or the queue is empty.  txn.get gives None for an
\* absent key and unpackb raises on None or on a malformed payload: the loop
\* is left by the exception, after the index was popped.
RECURSIVE LoadLoop(_, _, _, _, _, _)
LoadLoop(q, new_preload, popped, st, ps, bd) ==
    IF Len(new_preload) >= ps \/ Len(q) = 0
    THEN [q |-> q, new |-> new_preload, popped |-> popped, failed |-> FALSE]
    ELSE LET idx == q[Len(q)]
         IN  IF Undecodable(idx, bd)
             THEN [q |-> SubSeq(q, 1, Len(q) - 1), new |-> new_preload,
                   popped |-> Append(popped, idx), failed |-> TRUE]
             ELSE LoadLoop(SubSeq(q, 1, Len(q) - 1),
                           new_preload \o Decode(st[idx + 1]),
                           Append(popped, idx), st, ps, bd)

\* faulty variant of RefillEvents: a failed decode leaves the with block
\* without closing the transaction and the environment
RefillEvents_leak(failed) ==
    IF failed THEN <<"open", "begin">> ELSE <<"open", "begin", "commit", "close">>

\* the with statement of _load_next: lmdb.open, lmdb_env.begin, and on the way
\* out (normal or by exception) the transaction's and the environment's
\* __exit__; the transaction aborts when the body raised
RefillEvents(failed) ==
    <<"open", "begin", IF failed THEN "abort" ELSE "commit", "close">>

\* the with statement of __init__: lmdb.open, stat, close
InitEvents == <<"open", "close">>

\* __next__ after _load_next returned: np.copy of both arrays
CopyEvents == <<"copy">>

\* faulty variant of NeedsRefill: refill one pair too early
NeedsRefill_le(buf, bs) == Len(buf) <= bs

\* the refill condition of _load_next
NeedsRefill(buf, bs) == Len(buf) < bs

\* faulty variant of NeedsRegen: regenerate on every refill
NeedsRegen_always(q) == TRUE

\* the regeneration condition of _load_next
NeedsRegen(q) == Len(q) = 0

\* The orders in which one refill can append its pairs: random.shuffle of all
\* indices followed by _block_shuffle reaches every permutation.  Pairs carry
\* no content here, except the one that is being followed ("tracked").
Arrangements(new) ==
    IF \A i \in 1..Len(new) : new[i] = "pair"
    THEN {new}
    ELSE {[i \in 1..Len(new) |-> IF i = p THEN "tracked" ELSE "pair"] : p \in 1..Len(new)}

\* the pairs one record decodes to, each named by its record and its pose:
\* zip over the n * c flattened poses of rgb_features and depth_features
DecodePairs(idx, shape) == [k \in 1..(shape[1] * shape[2]) |-> <<idx, k>>]

\* new_preload after the while loop decoded the records popped, in pop order
PairsOf(popped, st) ==
    Flatten([i \in 1..Len(popped) |-> DecodePairs(popped[i], st[popped[i] + 1])])

\* faulty variant of Extended: the indices are drawn with replacement
Extended_sampled(new_preload, bs) ==
    {[i \in 1..Len(new_preload) |-> new_preload[b[i]]] :
        b \in UNION {_block_shuffle(p, bs) :
                        p \in [1..Len(new_preload) -> 1..Len(new_preload)]}}

\* sorted_ordering = list(range(len(new_preload))); random.shuffle(sorted_ordering);
\* the pairs in the order of _block_shuffle(sorted_ordering, batch_size)
Extended(new_preload, bs) ==
    {[i \in 1..Len(new_preload) |-> new_preload[b[i]]] :
        b \in UNION {_block_shuffle(p, bs) : p \in Permutations(Len(new_preload))}}

HasTracked(buf) == \E i \in 1..Len(buf) : buf[i] = "tracked"

\* follow the first pair decoded by this refill
Mark(new, mark) ==
    IF mark /\ Len(new) > 0 THEN [new EXCEPT ![1] = "tracked"] ELSE new

\* history window: keep the last complete pass and the current one
RECURSIVE Window(_, _)
Window(h, n) == IF n > 0 /\ Len(h) > 2 * n THEN Window(SubSeq(h, n + 1, Len(h)), n) ELSE h

\* ------------------------------------------------------- scalar values
\* Scalars and tensor entries are exact rationals <<numerator, denominator>>
\* in lowest terms with a positive denominator.
Abs(x) == IF x < 0 THEN -x ELSE x

RECURSIVE GCD(_, _)
GCD(a, b) == IF b = 0 THEN a ELSE GCD(b, a % b)

Q(n, d) ==
    LET g == GCD(Abs(n), Abs(d))
        sgn == IF d < 0 THEN -1 ELSE 1
    IN  <<(sgn * n) \div g, (sgn * d) \div g>>

QInt(n) == <<n, 1>>

QAdd(a, b) == Q(a[1] * b[2] + b[1] * a[2], a[2] * b[2])

QNeg(a) == <<-a[1], a[2]>>

QSub(a, b) == QAdd(a, QNeg(b))

QMul(a, b) == Q(a[1] * b[1], a[2] * b[2])

QLe(a, b) == a[1] * b[2] <= b[1] * a[2]

QMin(a, b) == IF QLe(a, b) THEN a ELSE b

QMax(a, b) == IF QLe(a, b) THEN b ELSE a

QAbs(a) == <<Abs(a[1]), a[2]>>

\* torch.clamp(x, lo, hi)
QClamp(x, lo, hi) == QMin(QMax(x, lo), hi)

\* x.pow(2)
QSq(a) == QMul(a, a)

RECURSIVE QSum(_)
QSum(v) == IF Len(v) = 0 THEN QInt(0) ELSE QAdd(Head(v), QSum(Tail(v)))

\* tensor.mean() of a non-empty tensor
QMean(v) == QMul(QSum(v), <<1, Len(v)>>)

\* accumulated sum / num_updates (num_updates >= 1)
QDivInt(a, n) == QMul(a, <<1, n>>)

\* ---------------------------------------------------- loss computation
\* entropy_loss: (pano_coef * pano + offset_coef * offset + distance_coef *
\* distance).mean() * entropy_coef
EntropyLoss(entropy, c) ==
    QMul(QMean([i \in 1..Len(entropy.pano) |->
                   QAdd(QAdd(QMul(c.pano_entropy_coef, entropy.pano[i]),
                             QMul(c.offset_entropy_coef, entropy.offset[i])),
                        QMul(c.distance_entropy_coef, entropy.distance[i]))]),
         c.entropy_coef)

\* action_loss: -min(ratio * adv, clamp(ratio, 1 - clip, 1 + clip) * adv).mean()
ActionLoss(ratio, adv_targ, c) ==
    QNeg(QMean([i \in 1..Len(ratio) |->
                   QMin(QMul(ratio[i], adv_targ[i]),
                        QMul(QClamp(ratio[i],
                                    QSub(QInt(1), c.clip_param),
                                    QAdd(QInt(1), c.clip_param)),
                             adv_targ[i]))]))

\* faulty variant of ValuePredClipped: the old prediction is not added back
ValuePredClipped_dropbase(value_preds_batch, values, c) ==
    [i \in 1..Len(values) |->
        QClamp(QSub(values[i], value_preds_batch[i]), QNeg(c.clip_param), c.clip_param)]

\* value_pred_clipped = value_preds_batch + (values - value_preds_batch).clamp(-clip, clip)
ValuePredClipped(value_preds_batch, values, c) ==
    [i \in 1..Len(values) |->
        QAdd(value_preds_batch[i],
             QClamp(QSub(values[i], value_preds_batch[i]),
                    QNeg(c.clip_param), c.clip_param))]

\* 0.5 * (return_batch - values).pow(2).mean()
UnclippedValueLoss(values, return_batch) ==
    QMul(<<1, 2>>, QMean([i \in 1..Len(values) |-> QSq(QSub(return_batch[i], values[i]))]))

\* 0.5 * torch.max(value_losses, value_losses_clipped).mean()
ClippedValueLoss(value_preds_batch, values, return_batch, c) ==
    LET value_pred_clipped == ValuePredClipped(value_preds_batch, values, c)
        value_losses == [i \in 1..Len(values) |-> QSq(QSub(values[i], return_batch[i]))]
        value_losses_clipped ==
            [i \in 1..Len(values) |-> QSq(QSub(value_pred_clipped[i], return_batch[i]))]
    IN  QMul(<<1, 2>>,
             QMean([i \in 1..Len(values) |-> QMax(value_losses[i], value_losses_clipped[i])]))

\* value_loss, scaled by value_loss_coef
ValueLoss(value_preds_batch, values, return_batch, c) ==
    QMul(IF c.use_clipped_value_loss
         THEN ClippedValueLoss(value_preds_batch, values, return_batch, c)
         ELSE UnclippedValueLoss(values, return_batch),
         c.value_loss_coef)

\* actor_critic.net.offset_to_continuous: bins 0, 1, 2 decode to -1, 0, 1
offset_to_continuous(offset) == [i \in 1..Len(offset) |-> QInt(offset[i] - 1)]

\* l1_loss(input, zeros_like(input)): mean absolute value
l1_loss(input) == QMean([i \in 1..Len(input) |-> QAbs(input[i])])

\* offset_loss: 0.0 unless "offset" in actions_batch
OffsetLoss(actions_batch, c) ==
    IF "offset" \in DOMAIN actions_batch
    THEN QMul(c.offset_regularize_coef, l1_loss(offset_to_continuous(actions_batch["offset"])))
    ELSE QInt(0)

\* faulty variant of TotalLoss: the entropy term is added
TotalLoss_plusentropy(value_loss, action_loss, offset_loss, entropy_loss) ==
    QAdd(QAdd(QAdd(value_loss, action_loss), offset_loss), entropy_loss)

\* loss = value_loss + action_loss + offset_loss - entropy_loss
TotalLoss(value_loss, action_loss, offset_loss, entropy_loss) ==
    QSub(QAdd(QAdd(value_loss, action_loss), offset_loss), entropy_loss)


\* ------------------------------------------------------- get_advantages
RECURSIVE IntSum(_)
IntSum(v) == IF Len(v) = 0 THEN 0 ELSE Head(v) + IntSum(Tail(v))

\* advantages = rollouts.returns[:-1] - rollouts.value_preds[:-1]
RawAdvantages(ret_, vp) ==
    [t \in 1..(Len(ret_) - 1) |-> [k \in 1..Len(ret_[t]) |-> ret_[t][k] - vp[t][k]]]

\* the entries of a tensor, row after row
Entries(m) == Flatten(m)

\* One entry of (advantages - advantages.mean()) / (advantages.std() + 1e-5),
\* kept exact: with n entries of sum S and sum of squares SS, the entry a
\* stands for
\*     ((n * a - S) / n) / (sqrt((n * SS - S * S) / (n * (n - 1))) + 1e-5).
\* Tensor.std() is the sample standard deviation (Bessel's correction, n - 1).
Standardized(a, n, S, SS) == [dev |-> n * a - S, ss |-> n * SS - S * S, n |-> n, bessel |-> n - 1]

\* get_advantages: the raw tensor, or its standardization
GetAdvantages(ret_, vp, normalize) ==
    LET raw == RawAdvantages(ret_, vp)
        e == Entries(raw)
        n == Len(e)
        S == IntSum(e)
        SS == IntSum([i \in 1..n |-> e[i] * e[i]])
    IN  IF ~normalize
        THEN raw
        ELSE [t \in 1..Len(raw) |-> [k \in 1..Len(raw[t]) |-> Standardized(raw[t][k], n, S, SS)]]

\* std() of a single entry divides 0 by 0: the entry is NaN
IsNaN(x) == x.bessel = 0

\* the entry is exactly 0: a zero numerator over a defined, positive divisor
IsZero(x) == x.bessel > 0 /\ x.ss >= 0 /\ x.dev = 0

\* ---------------------------------------------------------- update: data
QVec(v) == [i \in 1..Len(v) |-> QInt(v[i])]

\* actions_batch: a dict of sub-actions, with or without the "offset" entry
ActionsWithout == [k \in {"pano", "distance"} |-> <<0, 1>>]

ActionsWith(offset) ==
    [k \in {"pano", "offset", "distance"} |-> IF k = "offset" THEN offset ELSE <<0, 1>>]

Batch(vp, r, adv, ab) ==
    [value_preds_batch |-> QVec(vp), return_batch |-> QVec(r),
     adv_targ |-> QVec(adv), actions_batch |-> ab]

Output(v, ratio, pano, offs, dist) ==
    [values |-> QVec(v), ratio |-> ratio,
     entropy |-> [pano |-> QVec(pano), offset |-> QVec(offs), distance |-> QVec(dist)]]

Vals2 == {<<a, b>> : a, b \in {0, 2}}

SmallBatches ==
    {Batch(<<0, 2>>, <<2, 2>>, <<1, -1>>, ActionsWithout),
     Batch(<<2, 2>>, <<0, 2>>, <<2, 2>>, ActionsWith(<<0, 1>>))}

SmallOutputs ==
    {Output(<<0, 2>>, <<<<1, 1>>, <<1, 1>>>>, <<1, 1>>, <<0, 2>>, <<1, 3>>),
     Output(<<2, 0>>, <<<<1, 2>>, <<2, 1>>>>, <<2, 0>>, <<1, 1>>, <<0, 0>>)}

RichBatches ==
    {Batch(vp, r, adv, ab) :
        vp \in Vals2, r \in Vals2, adv \in {<<1, -1>>, <<2, 2>>},
        ab \in {ActionsWithout, ActionsWith(<<0, 2>>), ActionsWith(<<1, 2>>)}}

RichOutputs ==
    {Output(v, ratio, <<1, 1>>, offs, <<1, 3>>) :
        v \in Vals2, ratio \in {<<<<1, 1>>, <<1, 1>>>>, <<<<1, 2>>, <<2, 1>>>>},
        offs \in {<<0, 0>>, <<0, 2>>}}

\* the hyper-parameters of WDDPPO.__init__ and of the PPO base class
Config(epochs, mini, clipped, clip) ==
    [ppo_epoch |-> epochs, num_mini_batch |-> mini,
     use_clipped_value_loss |-> clipped, clip_param |-> clip,
     value_loss_coef |-> <<1, 2>>, entropy_coef |-> <<1, 2>>,
     offset_regularize_coef |-> <<1, 10>>,
     pano_entropy_coef |-> QInt(1), offset_entropy_coef |-> QInt(2),
     distance_entropy_coef |-> QInt(1)]

NoSample == Batch(<<>>, <<>>, <<>>, ActionsWithout)

NoOutput == Output(<<>>, <<>>, <<>>, <<>>, <<>>)

Zero == QInt(0)

NoLosses ==
    [entropy_loss |-> Zero, action_loss |-> Zero, value_loss |-> Zero,
     offset_loss |-> Zero, loss |-> Zero]

ZeroSums ==
    [value_loss_epoch |-> Zero, action_loss_epoch |-> Zero, entropy_loss_epoch |-> Zero,
     pano_entropy_epoch |-> Zero, offset_entropy_epoch |-> Zero,
     distance_entropy_epoch |-> Zero]

\* the six scalars one minibatch adds to the accumulators, in return order
Scalars(l, o) ==
    <<l.value_loss, l.action_loss, l.entropy_loss,
      QMean(o.entropy.pano), QMean(o.entropy.offset), QMean(o.entropy.distance)>>

\* all the losses of one minibatch
Losses(b, o, c) ==
    LET entropy_loss == EntropyLoss(o.entropy, c)
        action_loss == ActionLoss(o.ratio, b.adv_targ, c)
        value_loss == ValueLoss(b.value_preds_batch, o.values, b.return_batch, c)
        offset_loss == OffsetLoss(b.actions_batch, c)
    IN  [entropy_loss |-> entropy_loss, action_loss |-> action_loss,
         value_loss |-> value_loss, offset_loss |-> offset_loss,
         loss |-> TotalLoss(value_loss, action_loss, offset_loss, entropy_loss)]

\* faulty variant of NumUpdates: the minibatch count is left out
NumUpdates_epochs(c) == c.ppo_epoch

\* num_updates = self.ppo_epoch * self.num_mini_batch
NumUpdates(c) == c.ppo_epoch * c.num_mini_batch

\* next(obj) needs an iterator; a DataLoader defines __iter__ and no __next__
IsIterator(obj) == obj = "iterator"

\* ---------------------------------------------------------------- Init
StoreOf(L, s1, s2) == [r \in 1..L |-> IF r % 2 = 1 THEN s1 ELSE s2]

\* FramesDataset.__init__; undecodable records only where faulty
DatasetInit(lengths, faulty) ==
    /\ length \in lengths
    /\ bad \in (IF faulty THEN SUBSET (0..(length - 1)) ELSE {{}})
    /\ events = InitEvents
    /\ \E s1, s2 \in Shapes : store = StoreOf(length, s1, s2)
    /\ batch_size \in 1..MaxBatch
    /\ preload_size = batch_size * PreloadFactor
    /\ num_workers \in 0..MaxWorkers
    /\ worker_id \in Workers(num_workers)
    /\ start = 0
    /\ end = 0
    /\ load_ordering = <<>>
    /\ preload = <<>>
    /\ dpc = "constructed"
    /\ ret = "none"
    /\ pops = <<>>

\* a dataset that is constructed and left alone
DatasetIdle ==
    /\ length = 0 /\ store = <<>> /\ batch_size = 1
    /\ preload_size = batch_size * PreloadFactor
    /\ num_workers = 0 /\ worker_id = 0 /\ start = 0 /\ end = 0
    /\ load_ordering = <<>> /\ preload = <<>>
    /\ dpc = "constructed" /\ ret = "none" /\ pops = <<>>
    /\ bad = {} /\ events = InitEvents

Tensors(T, N) == [1..(T + 1) -> [1..N -> {8, 10}]]

\* a rollout buffer of horizon T with N environments
RolloutInit ==
    /\ \E T \in 1..MaxT, N \in 1..MaxN :
        /\ returns \in Tensors(T, N)
        /\ value_preds \in Tensors(T, N)
    /\ use_normalized_advantage \in BOOLEAN
    /\ advantages = <<>>

RolloutIdle ==
    /\ returns = <<<<10, 10>>, <<10, 8>>>>
    /\ value_preds = <<<<8, 10>>, <<8, 8>>>>
    /\ use_normalized_advantage = FALSE
    /\ advantages = <<>>

\* WDDPPO.__init__ / CWDDPPO.__init__, and the rollouts handed to update
TrainerInit(configs, batchSets, outputSets) ==
    /\ variant \in {"WDDPPO", "CWDDPPO"}
    /\ cfg \in configs
    /\ diter = IF variant = "CWDDPPO" THEN "DataLoader" ELSE "none"
    /\ batches \in batchSets
    /\ outputs \in outputSets
    /\ gen_len \in {cfg.num_mini_batch, cfg.num_mini_batch + 1}
    /\ upc = "start"
    /\ epoch = 0
    /\ yielded = 0
    /\ sample = NoSample
    /\ obs_batch = {}
    /\ out = NoOutput
    /\ losses = NoLosses
    /\ sums = ZeroSums
    /\ result = <<>>
    /\ error = "none"
    /\ calls = <<>>
    /\ drawn = 0
    /\ pulled = 0
    /\ opt_steps = 0
    /\ tally = [k \in batches \X outputs |-> 0]

TrainerIdle ==
    TrainerInit({Config(1, 1, TRUE, QInt(1))}, {SmallBatches}, {SmallOutputs})
        /\ variant = "WDDPPO" /\ gen_len = 1

\* no list is being shuffled on its own
ShuffleIdle == in_lst = <<>> /\ in_block_size = 1 /\ shuffled = <<>> /\ spc = "idle"

\* the elements of the lists handed to _block_shuffle; repeated elements occur
Elements == {1, 2, 3}

Lists == UNION {[1..n -> Elements] : n \in 0..MaxList}

\* shapes (segments, poses_per_segment) small enough to follow every pair
PairShapes == {<<1, 1>>, <<1, 2>>, <<2, 1>>}

\* a dataset on a small store, after __init__ and __iter__
DatasetIterated ==
    /\ length \in 0..MaxRecords
    /\ store \in [1..length -> PairShapes]
    /\ batch_size \in 1..MaxBatch
    /\ preload_size = batch_size * PreloadFactor
    /\ num_workers \in 0..MaxWorkers
    /\ worker_id \in Workers(num_workers)
    /\ start = ShardStart(length, num_workers, worker_id)
    /\ end = ShardEnd(length, num_workers, worker_id)
    /\ load_ordering \in NewOrdering(start, end, preload_size)
    /\ preload = <<>>
    /\ dpc = "iterating"
    /\ ret = "none"
    /\ pops = <<>>
    /\ bad = {}
    /\ events = <<>>

\* the inputs of the functions studied on their own: a list and a block size
\* for _block_shuffle, a dataset with a fresh queue for the refill
InitShuffle ==
    /\ RolloutIdle
    /\ TrainerIdle
    /\ shuffled = <<>>
    /\ \/ /\ spc = "list"
          /\ in_lst \in Lists
          /\ in_block_size \in 1..(MaxList + 1)
          /\ DatasetIdle
       \/ /\ spc = "queue"
          /\ in_lst = <<>>
          /\ in_block_size = 1
          /\ DatasetIterated

InitData == DatasetInit(0..MaxLength, FALSE) /\ RolloutIdle /\ TrainerIdle /\ ShuffleIdle

InitLive == DatasetInit(0..LiveLength, FALSE) /\ RolloutIdle /\ TrainerIdle /\ ShuffleIdle

\* small stores in which any record may be undecodable
InitFault == DatasetInit(0..FaultLength, TRUE) /\ RolloutIdle /\ TrainerIdle /\ ShuffleIdle

InitAdv == DatasetIdle /\ RolloutInit /\ TrainerIdle /\ ShuffleIdle

InitUpdate ==
    /\ DatasetIdle
    /\ RolloutIdle
    /\ TrainerInit({Config(e, m, clipped, QInt(1)) :
                        e \in 1..MaxEpoch, m \in 1..MaxMiniBatch, clipped \in BOOLEAN},
                   {SmallBatches}, {SmallOutputs})
    /\ ShuffleIdle

InitLoss ==
    /\ DatasetIdle
    /\ RolloutIdle
    /\ TrainerInit({Config(1, 1, clipped, clip) :
                        clipped \in BOOLEAN, clip \in {QInt(0), QInt(1)}},
                   {{b} : b \in RichBatches}, {{o} : o \in RichOutputs})
    /\ ShuffleIdle

\* ------------------------------------------------------------- actions
\* FramesDataset.__iter__
Iter ==
    /\ start' = ShardStart(length, num_workers, worker_id)
    /\ end' = ShardEnd(length, num_workers, worker_id)
    /\ load_ordering' \in NewOrdering(start', end', preload_size)
    /\ dpc' = "iterating"
    /\ ret' = "none"
    /\ pops' = <<>>
    /\ events' = <<>>
    /\ UNCHANGED <<length, store, batch_size, preload_size, num_workers, worker_id,
                   preload, bad>>
    /\ UNCHANGED <<avars, uvars, svars>>

\* FramesDataset.__next__ with _load_next
NextItem ==
    /\ dpc = "iterating"
    /\ IF NeedsRefill(preload, batch_size)
       THEN \E q0 \in (IF NeedsRegen(load_ordering)
                       THEN NewOrdering(start, end, preload_size)
                       ELSE {load_ordering}) :
            \E mark \in (IF HasTracked(preload) THEN {FALSE} ELSE BOOLEAN) :
                LET r == LoadLoop(q0, <<>>, <<>>, store, preload_size, bad)
                IN  \E app \in Arrangements(Mark(r.new, mark)) :
                        LET buf == preload \o app
                        IN  /\ load_ordering' = r.q
                            /\ pops' = Window(pops \o r.popped, end - start)
                            /\ IF r.failed
                               THEN /\ ret' = "Exception"
                                    /\ preload' = preload
                                    /\ events' = RefillEvents(TRUE)
                               ELSE IF Len(buf) = 0
                               THEN /\ ret' = "IndexError"
                                    /\ preload' = buf
                                    /\ events' = RefillEvents(FALSE)
                               ELSE /\ ret' = buf[Len(buf)]
                                    /\ preload' = SubSeq(buf, 1, Len(buf) - 1)
                                    /\ events' = RefillEvents(FALSE) \o CopyEvents
       ELSE /\ ret' = preload[Len(preload)]
            /\ preload' = SubSeq(preload, 1, Len(preload) - 1)
            /\ events' = CopyEvents
            /\ UNCHANGED <<load_ordering, pops>>
    /\ UNCHANGED <<length, store, batch_size, preload_size, num_workers, worker_id,
                   start, end, dpc, bad>>
    /\ UNCHANGED <<avars, uvars, svars>>

NextData == Iter \/ NextItem

SpecData == InitData /\ [][NextData]_vars

\* the same dataset on small stores, with __next__ called again and again
FairSpecData == InitLive /\ [][NextData]_vars /\ WF_vars(NextItem)

\* the same dataset on small stores with undecodable records
SpecFault == InitFault /\ [][NextData]_vars

\* _block_shuffle(lst, block_size), called on its own
BlockShuffleCall ==
    /\ spc = "list"
    /\ shuffled' \in _block_shuffle(in_lst, in_block_size)
    /\ spc' = "shuffled"
    /\ UNCHANGED <<in_lst, in_block_size>>
    /\ UNCHANGED <<dvars, avars, uvars>>

\* the refill of _load_next on an empty buffer, as a function of the queue and
\* the store: the list of pairs it extends the buffer by
RefillCall ==
    /\ spc = "queue"
    /\ LET r == LoadLoop(load_ordering, <<>>, <<>>, store, preload_size, bad)
       IN  shuffled' \in Extended(PairsOf(r.popped, store), batch_size)
    /\ spc' = "extended"
    /\ UNCHANGED <<in_lst, in_block_size>>
    /\ UNCHANGED <<dvars, avars, uvars>>

NextShuffle == BlockShuffleCall \/ RefillCall

SpecShuffle == InitShuffle /\ [][NextShuffle]_vars

\* WDDPPO.get_advantages, called on its own
GetAdvantagesCall ==
    /\ advantages = <<>>
    /\ advantages' = GetAdvantages(returns, value_preds, use_normalized_advantage)
    /\ UNCHANGED <<returns, value_preds, use_normalized_advantage>>
    /\ UNCHANGED <<dvars, uvars, svars>>

NextAdv == GetAdvantagesCall

SpecAdv == InitAdv /\ [][NextAdv]_vars

\* ------------------------------------------------------ update: actions
Trainer == <<variant, cfg, diter, batches, gen_len, outputs>>

\* update, up to the epoch loop: get_advantages and the zeroed accumulators
UpdateStart ==
    /\ upc = "start"
    /\ advantages' = GetAdvantages(returns, value_preds, use_normalized_advantage)
    /\ sums' = ZeroSums
    /\ epoch' = 0
    /\ upc' = "epoch"
    /\ UNCHANGED <<returns, value_preds, use_normalized_advantage>>
    /\ UNCHANGED <<Trainer, yielded, sample, obs_batch, out, losses, result, error,
                   calls, drawn, pulled, opt_steps, tally>>
    /\ UNCHANGED <<dvars, svars>>

\* for _e in range(self.ppo_epoch): data_generator = rollouts.recurrent_generator(...)
BeginEpoch ==
    /\ upc = "epoch"
    /\ epoch < cfg.ppo_epoch
    /\ yielded' = 0
    /\ upc' = "generator"
    /\ UNCHANGED <<Trainer, epoch, sample, obs_batch, out, losses, sums, result, error,
                   calls, drawn, pulled, opt_steps, tally>>
    /\ UNCHANGED <<dvars, avars, svars>>

\* for sample in data_generator: the generator yields the next minibatch
Sample ==
    /\ upc = "generator"
    /\ yielded < gen_len
    /\ sample' \in batches
    /\ yielded' = yielded + 1
    /\ drawn' = drawn + 1
    /\ obs_batch' = {"rgb_features", "depth_features"}
    /\ calls' = <<>>
    /\ upc' = IF variant = "CWDDPPO" THEN "pull" ELSE "evaluate"
    /\ UNCHANGED <<Trainer, epoch, out, losses, sums, result, error, pulled, opt_steps, tally>>
    /\ UNCHANGED <<dvars, avars, svars>>

\* the generator is exhausted: the next epoch
EndEpoch ==
    /\ upc = "generator"
    /\ yielded = gen_len
    /\ epoch' = epoch + 1
    /\ upc' = "epoch"
    /\ UNCHANGED <<Trainer, yielded, sample, obs_batch, out, losses, sums, result, error,
                   calls, drawn, pulled, opt_steps, tally>>
    /\ UNCHANGED <<dvars, avars, svars>>

\* CWDDPPO only: rgb_feats, depth_feats = next(self.diter), moved to the device
\* and injected into obs_batch
Pull ==
    /\ upc = "pull"
    /\ calls' = Append(calls, "next")
    /\ IF IsIterator(diter)
       THEN /\ pulled' = pulled + 1
            /\ obs_batch' = obs_batch \cup {"neg_rgb_features", "neg_depth_features"}
            /\ upc' = "evaluate"
            /\ error' = error
       ELSE /\ error' = "TypeError"
            /\ upc' = "raised"
            /\ UNCHANGED <<pulled, obs_batch>>
    /\ UNCHANGED <<Trainer, epoch, yielded, sample, out, losses, sums, result, drawn,
                   opt_steps, tally>>
    /\ UNCHANGED <<dvars, avars, svars>>

\* self.actor_critic.evaluate_actions(obs_batch, ...)
Evaluate ==
    /\ upc = "evaluate"
    /\ out' \in outputs
    /\ calls' = Append(calls, "evaluate_actions")
    /\ upc' = "losses"
    /\ UNCHANGED <<Trainer, epoch, yielded, sample, obs_batch, losses, sums, result, error,
                   drawn, pulled, opt_steps, tally>>
    /\ UNCHANGED <<dvars, avars, svars>>

\* entropy_loss, action_loss, value_loss and offset_loss
ComputeLosses ==
    /\ upc = "losses"
    /\ losses' = [Losses(sample, out, cfg) EXCEPT !.loss = Zero]
    /\ calls' = IF "offset" \in DOMAIN sample.actions_batch
                THEN Append(calls, "offset_to_continuous")
                ELSE calls
    /\ upc' = "zero_grad"
    /\ UNCHANGED <<Trainer, epoch, yielded, sample, obs_batch, out, sums, result, error,
                   drawn, pulled, opt_steps, tally>>
    /\ UNCHANGED <<dvars, avars, svars>>

\* self.optimizer.zero_grad(); loss = value_loss + action_loss + offset_loss - entropy_loss
ZeroGrad ==
    /\ upc = "zero_grad"
    /\ calls' = Append(calls, "zero_grad")
    /\ losses' = [losses EXCEPT !.loss = TotalLoss(losses.value_loss, losses.action_loss,
                                                   losses.offset_loss, losses.entropy_loss)]
    /\ upc' = "before_backward"
    /\ UNCHANGED <<Trainer, epoch, yielded, sample, obs_batch, out, sums, result, error,
                   drawn, pulled, opt_steps, tally>>
    /\ UNCHANGED <<dvars, avars, svars>>

\* one collaborator call that only moves update on
Call(at, name, to) ==
    /\ upc = at
    /\ calls' = Append(calls, name)
    /\ upc' = to
    /\ UNCHANGED <<Trainer, epoch, yielded, sample, obs_batch, out, losses, sums, result,
                   error, drawn, pulled, tally>>
    /\ UNCHANGED <<dvars, avars, svars>>

\* self.before_backward(loss)
BeforeBackward == Call("before_backward", "before_backward", "backward") /\ UNCHANGED opt_steps

\* loss.backward()
Backward == Call("backward", "backward", "after_backward") /\ UNCHANGED opt_steps

\* self.after_backward(loss)
AfterBackward == Call("after_backward", "after_backward", "before_step") /\ UNCHANGED opt_steps

\* self.before_step()
BeforeStep == Call("before_step", "before_step", "step") /\ UNCHANGED opt_steps

\* self.optimizer.step()
OptimizerStep == Call("step", "step", "after_step") /\ opt_steps' = opt_steps + 1

\* self.after_step()
AfterStep == Call("after_step", "after_step", "accumulate") /\ UNCHANGED opt_steps

\* value_loss_epoch += value_loss.item() and the five other accumulators
Accumulate ==
    /\ upc = "accumulate"
    /\ LET x == Scalars(losses, out)
       IN  sums' = [value_loss_epoch |-> QAdd(sums.value_loss_epoch, x[1]),
                    action_loss_epoch |-> QAdd(sums.action_loss_epoch, x[2]),
                    entropy_loss_epoch |-> QAdd(sums.entropy_loss_epoch, x[3]),
                    pano_entropy_epoch |-> QAdd(sums.pano_entropy_epoch, x[4]),
                    offset_entropy_epoch |-> QAdd(sums.offset_entropy_epoch, x[5]),
                    distance_entropy_epoch |-> QAdd(sums.distance_entropy_epoch, x[6])]
    /\ tally' = [tally EXCEPT ![<<sample, out>>] = @ + 1]
    /\ upc' = "generator"
    /\ UNCHANGED <<Trainer, epoch, yielded, sample, obs_batch, out, losses, result, error,
                   calls, drawn, pulled, opt_steps>>
    /\ UNCHANGED <<dvars, avars, svars>>

\* num_updates = ...; return the six accumulators divided by num_updates
Return ==
    /\ upc = "epoch"
    /\ epoch >= cfg.ppo_epoch
    /\ LET num_updates == NumUpdates(cfg)
       IN  result' = <<QDivInt(sums.value_loss_epoch, num_updates),
                       QDivInt(sums.action_loss_epoch, num_updates),
                       QDivInt(sums.entropy_loss_epoch, num_updates),
                       QDivInt(sums.pano_entropy_epoch, num_updates),
                       QDivInt(sums.offset_entropy_epoch, num_updates),
                       QDivInt(sums.distance_entropy_epoch, num_updates)>>
    /\ upc' = "returned"
    /\ UNCHANGED <<Trainer, epoch, yielded, sample, obs_batch, out, losses, sums, error,
                   calls, drawn, pulled, opt_steps, tally>>
    /\ UNCHANGED <<dvars, avars, svars>>

NextUpdate ==
    \/ UpdateStart \/ BeginEpoch \/ Sample \/ EndEpoch \/ Pull \/ Evaluate
    \/ ComputeLosses \/ ZeroGrad \/ BeforeBackward \/ Backward \/ AfterBackward
    \/ BeforeStep \/ OptimizerStep \/ AfterStep \/ Accumulate \/ Return

\* update on a small rollout, over several epochs and minibatches
SpecUpdate == InitUpdate /\ [][NextUpdate]_vars

\* update on one minibatch, over many minibatch contents and network outputs
SpecLoss == InitLoss /\ [][NextUpdate]_vars

\* ======================================================== claims: dataset
SetOf(s) == {s[i] : i \in 1..Len(s)}

Distinct(s) == \A i, j \in 1..Len(s) : i # j => s[i] # s[j]

\* the indices of range(start, end) as the iterator holds them
OwnRange == {i \in 0..(length + MaxLength) : start <= i /\ i < end}

\* the workers whose range [start_w, end_w) holds index i
Owners(i) ==
    {w \in Workers(num_workers) :
        /\ ShardStart(length, num_workers, w) <= i
        /\ i < ShardEnd(length, num_workers, w)}

\* C1: the ranges [start_w, end_w) of the workers are pairwise disjoint and
\* their union is exactly [0, length): every record index has exactly one
\* owner, no index outside [0, length) has one, and the iterator's own range
\* is the one of its worker (all of [0, length) without worker info).
C1_ShardPartition ==
    dpc = "iterating" =>
        /\ \A i \in 0..(length - 1) : Cardinality(Owners(i)) = 1
        /\ \A i \in length..(length + MaxLength) : Owners(i) = {}
        /\ \A i \in 0..(length + MaxLength) : (i \in OwnRange) <=> (worker_id \in Owners(i))
        /\ (num_workers = 0 => OwnRange = 0..(length - 1))

C1_Witness ==
    /\ dpc = "iterating"
    /\ length = 5 /\ num_workers = 3 /\ worker_id = 2
    /\ start = 4 /\ end = 5

\* number of pops that belong to the most recent pass
LastGroup(n) == IF Len(pops) = 0 THEN 0 ELSE ((Len(pops) - 1) % n) + 1

\* C2: on a shard of n >= 1 records the popped indices form passes: every
\* group of n consecutive pops holds each index of [start, end) exactly once,
\* and the queue always holds exactly the indices the current pass has not
\* popped yet (so it is regenerated only when empty).
C2_Passes ==
    (dpc = "iterating" /\ end - start >= 1) =>
        LET n == end - start
            shard == start..(end - 1)
            g == LastGroup(n)
            first == SubSeq(pops, 1, Min(n, Len(pops)))
            rest == SubSeq(pops, n + 1, Len(pops))
            cur == SubSeq(pops, Len(pops) - g + 1, Len(pops))
        IN  /\ Len(pops) <= 2 * n
            /\ Distinct(first) /\ SetOf(first) \subseteq shard
            /\ Distinct(rest) /\ SetOf(rest) \subseteq shard
            /\ Len(load_ordering) = n - g
            /\ Distinct(load_ordering)
            /\ SetOf(load_ordering) \cup SetOf(cur) = shard

C2_Witness ==
    /\ dpc = "iterating"
    /\ end - start = 11
    /\ Len(pops) = 22
    /\ SubSeq(pops, 1, 11) # SubSeq(pops, 12, 22)

\* C3: every __next__ call returns one pair; the preload buffer is never
\* popped while empty.
C3_NeverExhausted == ret # "IndexError"

\* C3 on a shard that holds at least one record, where it holds
NonEmptyShard_NeverExhausted == (dpc = "iterating" /\ end > start) => ret # "IndexError"

\* the followed pair sits at a position the pops reach
TrackedHigh == \E i \in 1..Len(preload) : preload[i] = "tracked" /\ i >= batch_size

\* the followed pair sits among the bottom batch_size - 1 positions
TrackedLow == \E i \in 1..Len(preload) : preload[i] = "tracked" /\ i < batch_size

\* C4 (as stated): with __next__ called infinitely often, every pair a refill
\* appended to the preload buffer is returned by some later call.
C4_NoPairDropped == HasTracked(preload) ~> ~HasTracked(preload)

\* C4 (amended): a pair left at a buffer position >= batch_size is returned by
\* a later call; a pair left among the bottom batch_size - 1 positions stays
\* there for ever.
C4_ReturnedAboveBatch ==
    /\ TrackedHigh ~> ~HasTracked(preload)
    /\ [][TrackedLow => TrackedLow']_vars

C4_Witness == batch_size = 2 /\ TrackedHigh /\ Len(preload) >= 3

\* the number of times e occurs in s
Count(s, e) == Cardinality({i \in 1..Len(s) : s[i] = e})

\* the store handles the last operation opened
Opens(ev) == Count(ev, "open")

\* segments * poses_per_segment of the record idx
PairsIn(idx) == store[idx + 1][1] * store[idx + 1][2]

\* P: the largest number of pairs in one record of the store
LargestRecord ==
    IF length = 0 THEN 0
    ELSE CHOOSE m \in {PairsIn(i) : i \in 0..(length - 1)} :
             \A i \in 0..(length - 1) : PairsIn(i) <= m

\* C13: a refill runs in a __next__ call exactly when the buffer holds fewer
\* than batch_size pairs at entry, at most once per call; it stops decoding
\* as soon as it has accumulated at least preload_size pairs or the queue is
\* empty; so the buffer length is never negative and never exceeds
\* (batch_size - 1) + (preload_size - 1) + P.
C13_BufferBound ==
    /\ [](/\ Len(preload) >= 0
          /\ Len(preload) <= (batch_size - 1) + (preload_size - 1) + LargestRecord)
    /\ [][ret' # "none" =>
            /\ Opens(events') = (IF Len(preload) < batch_size THEN 1 ELSE 0)
            /\ (Opens(events') = 1 /\ ret' \notin {"IndexError", "Exception"}) =>
                  LET added == Len(preload') + 1 - Len(preload)
                  IN  /\ (added < preload_size => load_ordering' = <<>>)
                      /\ added - PairsIn(pops'[Len(pops')]) < preload_size]_vars

C13_Witness ==
    /\ batch_size = 2
    /\ Opens(events) = 1
    /\ Len(preload) > preload_size
    /\ load_ordering # <<>>

\* the index i opens a block of preload_size indices of range(start, end)
BlockFirst(i) == (i - start) % preload_size = 0

\* the index i closes a block (the last block may be shorter)
BlockLast(i) == i = end - 1 \/ (i - start + 1) % preload_size = 0

\* p starts at the head of a block, runs upwards by one inside a block and
\* goes from the end of a block to the head of a block
InBlockOrder(p) ==
    /\ (Len(p) > 0 => BlockFirst(p[1]))
    /\ \A i \in 1..(Len(p) - 1) :
          IF BlockLast(p[i]) THEN BlockFirst(p[i + 1]) ELSE p[i + 1] = p[i] + 1

\* C14: the queue being the reverse of the block-shuffled shard range and
\* popped from the tail, the record indices popped within one pass are the
\* shard's contiguous blocks of preload_size indices in a shuffled block
\* order, ascending and consecutive inside each block.
C14_BlockOrder ==
    (dpc = "iterating" /\ end - start >= 1) =>
        LET n == end - start
        IN  /\ InBlockOrder(SubSeq(pops, 1, Min(n, Len(pops))))
            /\ InBlockOrder(SubSeq(pops, n + 1, Len(pops)))
            /\ \A i \in 1..Len(pops) : start <= pops[i] /\ pops[i] < end

C14_Witness ==
    /\ dpc = "iterating"
    /\ start = 0 /\ end = 11 /\ preload_size = 10
    /\ Len(pops) >= 11
    /\ pops[1] = 10 /\ pops[2] = 0 /\ pops[3] = 1 /\ pops[11] = 9

IsHandleEvent(x) == x # "copy"

\* the store handle events of the last operation, without the copies
HandleTrace == SelectSeq(events, IsHandleEvent)

\* environments and transactions still open after the last operation
HeldOpen(ev) ==
    (Count(ev, "open") - Count(ev, "close"))
        + (Count(ev, "begin") - Count(ev, "commit") - Count(ev, "abort"))

\* C15: each refill opens exactly one store handle and one transaction and
\* closes both before it ends, also when a decode inside it fails; at every
\* return from __next__ (normal or by error) and between refills no store
\* handle or transaction is open.
C15_HandlesClosed ==
    /\ HeldOpen(events) = 0
    /\ HandleTrace \in {<<>>, <<"open", "close">>,
                        <<"open", "begin", "commit", "close">>,
                        <<"open", "begin", "abort", "close">>}
    /\ (dpc = "iterating" => HandleTrace # <<"open", "close">>)
    /\ (ret = "Exception" => HandleTrace = <<"open", "begin", "abort", "close">>)
    /\ (ret = "IndexError" => HandleTrace = <<"open", "begin", "commit", "close">>)
    /\ (ret \in {"pair", "tracked"} =>
            HandleTrace \in {<<>>, <<"open", "begin", "commit", "close">>})

C15_Witness ==
    /\ ret = "Exception"
    /\ Len(pops) >= 2
    /\ pops[Len(pops)] \in bad
    /\ events = <<"open", "begin", "abort", "close">>

\* C16: for every pair __next__ returns, the copy of its arrays is made
\* before the transaction that decoded the pair is closed: in the events of
\* the call the copy stands before the end of the transaction.
C16_CopyBeforeClose ==
    ret \in {"pair", "tracked"} =>
        \E i, j \in 1..Len(events) :
            /\ events[i] = "copy"
            /\ events[j] \in {"commit", "abort"}
            /\ i < j

\* the copy is made in every call that returns a pair, as the last event
CopyIsLast ==
    ret \in {"pair", "tracked"} => (Len(events) > 0 /\ events[Len(events)] = "copy")

\* the record indices a __next__ step took from the queue
PoppedInStep ==
    IF ~(Len(preload) < batch_size) THEN {}
    ELSE IF load_ordering = <<>>
    THEN {i \in 0..(length - 1) : start <= i /\ i < end} \ SetOf(load_ordering')
    ELSE SetOf(load_ordering) \ SetOf(load_ordering')

\* C17: when a refill pops an index whose key is absent or whose payload
\* cannot be decoded, the __next__ call that triggered the refill raises; the
\* index is not passed over, no pair is returned, and the preload buffer is
\* left as it was at call entry.  A call raises a decode error only then.
C17_DecodeErrorSurfaces ==
    /\ [][ret' # "none" =>
            /\ (PoppedInStep \cap bad # {} =>
                    /\ ret' = "Exception"
                    /\ preload' = preload)
            /\ (ret' = "Exception" => PoppedInStep \cap bad # {})]_vars
    /\ [](ret = "Exception" => (Len(pops) > 0 /\ pops[Len(pops)] \in bad))

C17_Witness ==
    /\ ret = "Exception"
    /\ Len(preload) = 1
    /\ batch_size = 2
    /\ Len(pops) >= 3

\* an __iter__ call has just returned
JustIterated == dpc = "iterating" /\ ret = "none" /\ events = <<>>

\* C18: after every __iter__ call, the first one and every restart on the
\* same instance after any number of __next__ calls, the preload buffer is
\* empty and the queue is a fresh block-shuffled ordering that holds every
\* index of the shard exactly once.
C18_IterStartsClean ==
    JustIterated =>
        /\ preload = <<>>
        /\ load_ordering \in NewOrdering(start, end, preload_size)
        /\ Distinct(load_ordering)
        /\ SetOf(load_ordering) = {i \in 0..(length - 1) : start <= i /\ i < end}

\* the queue half of C18, which holds: __iter__ rebuilds load_ordering
FreshQueueAfterIter ==
    JustIterated =>
        /\ load_ordering \in NewOrdering(start, end, preload_size)
        /\ Distinct(load_ordering)
        /\ SetOf(load_ordering) = {i \in 0..(length - 1) : start <= i /\ i < end}

\* ================================================ claims: block shuffle

SameMultiset(a, b) ==
    /\ Len(a) = Len(b)
    /\ \A e \in SetOf(a) \cup SetOf(b) : Count(a, e) = Count(b, e)

\* the k-th contiguous block of block_size elements of the input list
InputBlock(k) ==
    [i \in 1..Min(in_block_size, Len(in_lst) - (k - 1) * in_block_size) |->
        in_lst[(k - 1) * in_block_size + i]]

InputBlockCount == Ceil(Len(in_lst), in_block_size)

\* C11: for every list and every block_size >= 1, _block_shuffle returns a
\* permutation of the list (same multiset of elements) that is the
\* concatenation, in some order, of the input's contiguous blocks of
\* block_size elements (the last one possibly shorter), each block's interior
\* order kept; with block_size >= len(lst) the output equals the input.
C11_BlockShufflePermutes ==
    spc = "shuffled" =>
        /\ SameMultiset(shuffled, in_lst)
        /\ \E f \in Permutations(InputBlockCount) :
              shuffled = Flatten([k \in 1..InputBlockCount |-> InputBlock(f[k])])
        /\ (in_block_size >= Len(in_lst) => shuffled = in_lst)

C11_Witness ==
    /\ spc = "shuffled"
    /\ in_lst = <<1, 2, 3>>
    /\ in_block_size = 2
    /\ shuffled = <<3, 1, 2>>

\* the pairs the record idx of the store holds: segments * poses_per_segment
RecordPairs(idx) == {<<idx, k>> : k \in 1..(store[idx + 1][1] * store[idx + 1][2])}

RECURSIVE PairCount(_)
\* the sum over the records recs of segments * poses_per_segment
PairCount(recs) ==
    IF recs = {} THEN 0
    ELSE LET r == CHOOSE x \in recs : TRUE
         IN  store[r + 1][1] * store[r + 1][2] + PairCount(recs \ {r})

\* C12: a refill extends the preload buffer by exactly the pairs of the
\* records it decoded, each pair once: a record of shape (segments,
\* poses_per_segment, ...) gives segments * poses_per_segment pairs, and the
\* random permutation followed by the block shuffle with block size
\* batch_size neither drops nor duplicates a pair; a refill that empties the
\* queue of a fresh pass has decoded the sum over the shard's records of
\* segments * poses_per_segment pairs.
C12_RefillKeepsPairs ==
    spc = "extended" =>
        LET r == LoadLoop(load_ordering, <<>>, <<>>, store, preload_size, bad)
            recs == SetOf(r.popped)
        IN  /\ Distinct(shuffled)
            /\ SetOf(shuffled) = UNION {RecordPairs(idx) : idx \in recs}
            /\ Len(shuffled) = PairCount(recs)
            /\ Len(r.new) = Len(shuffled)
            /\ (r.q = <<>> =>
                    /\ recs = {i \in 0..(length - 1) : start <= i /\ i < end}
                    /\ Len(shuffled) = PairCount({i \in 0..(length - 1) : start <= i /\ i < end}))

C12_Witness ==
    /\ spc = "extended"
    /\ num_workers = 0
    /\ store = <<<<1, 2>>, <<2, 1>>>>
    /\ batch_size = 2
    /\ Len(shuffled) = 4
    /\ shuffled[1] = <<1, 2>>
    /\ shuffled[4] = <<0, 1>>

\* ============================================== claims: update, advantages
Seven ==
    <<"zero_grad", "before_backward", "backward", "after_backward",
      "before_step", "step", "after_step">>

IsStepCall(x) == x \in SetOf(Seven)

\* the optimisation calls made for the current minibatch, in order
StepCalls == SelectSeq(calls, IsStepCall)

\* update is not inside the body of a minibatch
MinibatchOver == drawn > 0 /\ upc \in {"generator", "epoch", "returned", "raised"}

\* C5: in WDDPPO.update and in CWDDPPO.update every minibatch taken from the
\* generator performs zero_grad, before_backward, backward, after_backward,
\* before_step, optimizer.step, after_step, in this order and once each, so
\* that one optimizer step is taken per minibatch.
C5_StepSequence == MinibatchOver => (StepCalls = Seven /\ opt_steps = drawn)

\* C5 restricted to WDDPPO.update, where it holds: the calls made so far are
\* always a prefix of the seven, and complete when the minibatch is over.
WDDPPO_StepSequence ==
    variant = "WDDPPO" =>
        /\ StepCalls = SubSeq(Seven, 1, Len(StepCalls))
        /\ MinibatchOver => (StepCalls = Seven /\ opt_steps = drawn)

\* C6: in CWDDPPO.update one negative batch is pulled for every minibatch,
\* before that minibatch's evaluate_actions call, which sees the two injected
\* entries; the batches pulled are as many as the minibatches taken.
C6_OnePullPerMinibatch ==
    variant = "CWDDPPO" =>
        /\ (upc # "pull" => pulled = drawn)
        /\ ("evaluate_actions" \in SetOf(calls) =>
                /\ calls[1] = "next"
                /\ {"neg_rgb_features", "neg_depth_features"} \subseteq obs_batch)

RECURSIVE SumOver(_, _)
\* the i-th scalar summed over the processed minibatches, from the tally
SumOver(kinds, i) ==
    IF kinds = {} THEN Zero
    ELSE LET k == CHOOSE x \in kinds : TRUE
         IN  QAdd(QMul(QInt(tally[k]), Scalars(Losses(k[1], k[2], cfg), k[2])[i]),
                  SumOver(kinds \ {k}, i))

RECURSIVE CountOver(_)
CountOver(kinds) ==
    IF kinds = {} THEN 0
    ELSE LET k == CHOOSE x \in kinds : TRUE IN tally[k] + CountOver(kinds \ {k})

Processed == CountOver(DOMAIN tally)

\* C7: update returns six scalars, each the sum of the per-minibatch values
\* divided by ppo_epoch * num_mini_batch; when the generator yields exactly
\* num_mini_batch minibatches per epoch the divisor is the number of
\* minibatches processed (and of optimizer steps), so each is an average.
C7_ReturnsAverages ==
    upc = "returned" =>
        /\ Len(result) = 6
        /\ \A i \in 1..6 :
              result[i] = QDivInt(SumOver(DOMAIN tally, i),
                                  cfg.ppo_epoch * cfg.num_mini_batch)
        /\ gen_len = cfg.num_mini_batch =>
              /\ Processed = cfg.ppo_epoch * cfg.num_mini_batch
              /\ opt_steps = Processed
              /\ \A i \in 1..6 : QMul(result[i], QInt(Processed)) = SumOver(DOMAIN tally, i)

C7_Witness ==
    /\ upc = "returned"
    /\ cfg.ppo_epoch = 2 /\ cfg.num_mini_batch = 2 /\ gen_len = 2
    /\ opt_steps = 4
    /\ result[1] # Zero /\ result[2] # Zero

\* the total loss of the current minibatch has been computed
LossComputed ==
    upc \in {"before_backward", "backward", "after_backward", "before_step",
             "step", "after_step", "accumulate"}

\* C8: without an "offset" entry in actions_batch the total loss is
\* value_loss + action_loss - entropy_loss, the offset term is exactly zero,
\* offset_to_continuous is not called and nothing is raised; with the entry
\* the total loss is value_loss + action_loss
\* + offset_regularize_coef * L1(offset_to_continuous(offset), 0) - entropy_loss.
C8_OffsetTerm ==
    LossComputed =>
        IF "offset" \notin DOMAIN sample.actions_batch
        THEN /\ losses.offset_loss = Zero
             /\ losses.loss = QSub(QAdd(losses.value_loss, losses.action_loss),
                                   losses.entropy_loss)
             /\ "offset_to_continuous" \notin SetOf(calls)
             /\ error = "none"
        ELSE losses.loss =
                 QSub(QAdd(QAdd(losses.value_loss, losses.action_loss),
                           QMul(cfg.offset_regularize_coef,
                                l1_loss(offset_to_continuous(sample.actions_batch["offset"])))),
                      losses.entropy_loss)

C8_Witness ==
    /\ LossComputed
    /\ "offset" \notin DOMAIN sample.actions_batch
    /\ losses.entropy_loss # Zero
    /\ losses.loss # Zero

\* C10: when value_preds_batch equals values element-wise, the value loss of
\* the clipped mode equals the value loss of the unclipped mode,
\* 0.5 * mean((return - values)^2) * value_loss_coef.
C10_ClippedEqualsUnclipped ==
    (LossComputed /\ cfg.use_clipped_value_loss /\ sample.value_preds_batch = out.values) =>
        losses.value_loss =
            QMul(UnclippedValueLoss(out.values, sample.return_batch), cfg.value_loss_coef)

C10_Witness ==
    /\ LossComputed
    /\ cfg.use_clipped_value_loss
    /\ sample.value_preds_batch = out.values
    /\ out.values = QVec(<<2, 0>>)
    /\ sample.return_batch = QVec(<<0, 2>>)
    /\ losses.value_loss # Zero

IsLoopCall(x) == x # "next"

\* the collaborator calls WDDPPO.update makes for one minibatch
LoopCalls(b) ==
    <<"evaluate_actions">>
        \o (IF "offset" \in DOMAIN b.actions_batch THEN <<"offset_to_continuous">> ELSE <<>>)
        \o Seven

\* C19: on the same rollout, configuration and policy outputs WDDPPO.update
\* and CWDDPPO.update make the same evaluate_actions calls, loss
\* computations, hook calls and optimizer steps and return the same six
\* scalars: neither raises, every minibatch taken makes the calls of the
\* base loop, and the scalars returned are the same function of the
\* minibatches processed; CWDDPPO differs only by its pull before
\* evaluate_actions and the two entries it adds to obs_batch.
C19_SameLoop ==
    /\ error = "none"
    /\ (MinibatchOver => SelectSeq(calls, IsLoopCall) = LoopCalls(sample))
    /\ (MinibatchOver =>
            /\ calls = (IF variant = "CWDDPPO" THEN <<"next">> ELSE <<>>) \o LoopCalls(sample)
            /\ obs_batch = {"rgb_features", "depth_features"}
                    \cup (IF variant = "CWDDPPO"
                          THEN {"neg_rgb_features", "neg_depth_features"} ELSE {}))
    /\ (upc = "returned" =>
            \A i \in 1..6 : result[i] = QDivInt(SumOver(DOMAIN tally, i), NumUpdates(cfg)))

\* C19 for WDDPPO.update alone, where it holds
WDDPPO_SameLoop == variant = "WDDPPO" => C19_SameLoop

\* returns[:-1] - value_preds[:-1] has one value at every step and environment
ZeroVariance ==
    LET e == Entries(RawAdvantages(returns, value_preds))
    IN  \A i, j \in 1..Len(e) : e[i] = e[j]

\* C9: with normalization, a zero-variance advantage tensor comes back with
\* every entry 0 and no undefined value, for every T >= 1 and N >= 1; without
\* normalization get_advantages returns returns[:-1] - value_preds[:-1].
C9_ZeroVarianceGivesZero ==
    advantages # <<>> =>
        IF use_normalized_advantage
        THEN ZeroVariance =>
                 \A t \in 1..Len(advantages) : \A k \in 1..Len(advantages[t]) :
                     IsZero(advantages[t][k])
        ELSE advantages = RawAdvantages(returns, value_preds)

\* C9 for tensors of at least two entries, where it holds
TwoEntries_ZeroVarianceGivesZero ==
    (advantages # <<>> /\ Len(Entries(RawAdvantages(returns, value_preds))) >= 2) =>
        C9_ZeroVarianceGivesZero

====
